---- MODULE Spec2Model ----
(***************************************************************************)
(* Model of the artist resolution pipeline of greenville-music-scraper:    *)
(* ArtistManager.process_artist and the SQLite store behind it             *)
(* (src/src/artist_manager.py).                                            *)
(*                                                                         *)
(* Every store method opens its own connection and runs one transaction,   *)
(* so one store method is one atomic step; several process_artist calls    *)
(* (threads or processes sharing artists.db) interleave between them.      *)
(***************************************************************************)
EXTENDS Integers, Sequences, FiniteSets, TLC

\* ------------------------------------------------------------------ bounds

\* Number of process_artist calls in one behaviour.
MaxCalls == 2

\* Longest genre list of a social or venue-history fragment.
MaxGenres == 2

\* Number of committed writes when the store methods are called directly.
MaxWrites == 2

\* Most event rows on a calendar page.
MaxElements == 2

\* ------------------------------------------------------- values and inputs

\* Python's None / a present value.
None == <<>>
Some(x) == <<x>>

\* Strings whose characters matter (names) are sequences of characters.
\* Artist names passed to process_artist: two that differ only in case.
Names == {<<"A", "b">>, <<"a", "b">>}

\* Names the catalog search may return for its top-1 artist.
CatalogNames == {<<"a", "b">>}

\* Genre lists a catalog artist may carry: a repeated tag, two tags.
GenreLists == {<<"rock", "rock">>, <<"rock", "blues">>}

\* The venue argument: None or a venue name.
Venues == {None, Some("Venue A"), Some("Venue B")}

\* Python truthiness of the venue argument (`if venue:`).
Truthy(venue) == venue # None /\ venue[1] # ""

\* str.lower(), character by character.
LowerChar(c) == CASE c = "A" -> "a" [] OTHER -> c

lower(s) == [i \in 1..Len(s) |-> LowerChar(s[i])]

\* ','.join(list)
RECURSIVE Join(_)
Join(l) ==
    IF l = <<>> THEN ""
    ELSE IF Len(l) = 1 THEN l[1]
    ELSE l[1] \o "," \o Join(Tail(l))

\* set(list)
ToSet(l) == {l[i] : i \in 1..Len(l)}

\* list.extend
Extend(l, m) == l \o m

\* dict.update: the keys of e overwrite or are added to d.
Update(d, e) ==
    [k \in DOMAIN d \cup DOMAIN e |-> IF k \in DOMAIN e THEN e[k] ELSE d[k]]

\* dict.get(key, default)
Get(d, k, default) == IF k \in DOMAIN d THEN d[k] ELSE default

\* Confidence values, in tenths.
ConfExact == 8
ConfPartial == 5
ConfDefault == 0

\* What spotify.search(q, type='artist', limit=1) can produce: an exception,
\* an empty item list, or one artist.
CatalogArtists ==
    [name : CatalogNames, genres : GenreLists, popularity : {50}, id : {"sp1"}]

SearchResults ==
    {[kind |-> "error", items |-> <<>>], [kind |-> "ok", items |-> <<>>]}
        \cup {[kind |-> "ok", items |-> <<a>>] : a \in CatalogArtists}

\* ------------------------------------------------------------------- state

VARIABLES
    spotify,        \* self.spotify is not None
    artists,        \* table artists: set of rows (id is the primary key)
    artist_genres,  \* table artist_genres: rows in insertion order
    artist_venues,  \* table artist_venues: rows in insertion order
    now,            \* the clock datetime.now() reads
    pc,             \* per call: position in process_artist
    arg,            \* per call: (artist_name, venue)
    info,           \* per call: the local artist_info
    ret,            \* per call: the returned dict, once returned
    exc,            \* per call: the exception raised out of process_artist
    path,           \* per call: get_artist_from_db gave a "hit", a "miss", an "error"
    adapterCalls,   \* per call: source adapters invoked
    writeOutcome,   \* per call: how its store write (insert or visit) ended
    prior,          \* per call: the calls that had ended when it began
    inputs,         \* adapter results fixed in advance (SpecMerge only)
    scrape          \* the scrape_events call of a calendar scraper (SpecScrape only)

vars == <<spotify, artists, artist_genres, artist_venues, now, pc, arg, info,
          ret, exc, path, adapterCalls, writeOutcome, prior, inputs, scrape>>

\* The value of inputs where it is not used.
NoInputs ==
    [name |-> <<>>, search |-> [kind |-> "error", items |-> <<>>],
     social |-> None, venue |-> None]

\* The value of scrape before scrape_events is called.
NoScrape ==
    [which |-> "none", pc |-> "idle", fetched |-> "none", page |-> <<>>,
     i |-> 0, events |-> <<>>]

Procs == 1..MaxCalls

Ended(p) == pc[p] \in {"done", "raised"}

\* ------------------------------------------------------------ the adapters

\* get_spotify_info comparing the names as they are, not lowered.
get_spotify_info_exact(client, artist_name, search) ==
    IF ~client THEN None
    ELSE IF search.kind = "error" THEN None
    ELSE IF search.items # <<>>
    THEN LET artist == search.items[1] IN
         Some([genres |-> artist.genres,
               popularity |-> artist.popularity,
               spotify_id |-> artist.id,
               confidence |-> IF artist.name = artist_name
                              THEN ConfExact ELSE ConfPartial])
    ELSE None

\* get_spotify_info: None without a client, on an exception or on no result.
get_spotify_info(client, artist_name, search) ==
    IF ~client THEN None
    ELSE IF search.kind = "error" THEN None
    ELSE IF search.items # <<>>
    THEN LET artist == search.items[1] IN
         Some([genres |-> artist.genres,
               popularity |-> artist.popularity,
               spotify_id |-> artist.id,
               confidence |-> IF lower(artist.name) = lower(artist_name)
                              THEN ConfExact ELSE ConfPartial])
    ELSE None

\* The tail of check_social_media and of check_venue_history: the fragment
\* is returned only when it names a source.
FragmentOrNone(found) == IF found.sources # <<>> THEN Some(found) ELSE None

\* The fragment both stubs start from; nothing in their bodies fills it.
EmptyFragment == [genres |-> <<>>, sources |-> <<>>, is_local |-> FALSE]

check_social_media(artist_name) == FragmentOrNone(EmptyFragment)

check_venue_history(artist_name) == FragmentOrNone(EmptyFragment)

\* ---------------------------------------------------------------- the merge

\* gather_artist_info, lines 71-77: the initial candidate.
InitialInfo(artist_name) ==
    [name |-> artist_name, genres |-> <<>>, is_local |-> FALSE,
     confidence |-> ConfDefault, sources |-> <<>>]

\* Lines 79-84: the catalog fragment is overlaid with dict.update.
MergeSpotify(i, client, spotify_info) ==
    IF client /\ spotify_info # None
    THEN LET u == Update(i, spotify_info[1]) IN
         [u EXCEPT !.sources = Append(u.sources, "spotify")]
    ELSE i

\* MergeFragment assigning the fragment's is_local instead of or-ing it.
MergeFragment_overwrite(i, frag) ==
    IF frag # None
    THEN LET f == frag[1]
             a == [i EXCEPT !.is_local = Get(f, "is_local", FALSE)]
             b == IF Get(f, "genres", <<>>) # <<>>
                  THEN [a EXCEPT !.genres = Extend(a.genres, f.genres)]
                  ELSE a
         IN [b EXCEPT !.sources = Extend(b.sources, Get(f, "sources", <<>>))]
    ELSE i

\* Lines 88-92 and 96-100: a social or venue-history fragment.
MergeFragment(i, frag) ==
    IF frag # None
    THEN LET f == frag[1]
             a == [i EXCEPT !.is_local = i.is_local \/ Get(f, "is_local", FALSE)]
             b == IF Get(f, "genres", <<>>) # <<>>
                  THEN [a EXCEPT !.genres = Extend(a.genres, f.genres)]
                  ELSE a
         IN [b EXCEPT !.sources = Extend(b.sources, Get(f, "sources", <<>>))]
    ELSE i

\* MergeAll merging the venue-history fragment before the social one.
MergeAll_swapped(artist_name, client, spotify_info, social_info, venue_info) ==
    MergeFragment(
        MergeFragment(
            MergeSpotify(InitialInfo(artist_name), client, spotify_info),
            venue_info),
        social_info)

\* gather_artist_info up to line 100.
MergeAll(artist_name, client, spotify_info, social_info, venue_info) ==
    MergeFragment(
        MergeFragment(
            MergeSpotify(InitialInfo(artist_name), client, spotify_info),
            social_info),
        venue_info)

\* Adapters gather_artist_info invokes: the catalog only with a client.
AdaptersInvoked(client) == (IF client THEN 1 ELSE 0) + 2

\* ---------------------------------------------------------------- the store

Max(S) == CHOOSE x \in S : \A y \in S : y <= x

\* INTEGER PRIMARY KEY without AUTOINCREMENT: one more than the largest rowid.
NextRowId == IF artists = {} THEN 1 ELSE Max({a.id : a \in artists}) + 1

\* NameTaken without the UNIQUE constraint on artists.name.
NameTaken_off(name) == FALSE

\* The UNIQUE constraint on artists.name.
NameTaken(name) == \E a \in artists : a.name = name

\* The row save_artist_to_db inserts into artists (lines 176-181).
ArtistRow(artist_info, t) ==
    [id |-> NextRowId, name |-> artist_info.name,
     is_local |-> artist_info.is_local,
     verification_source |-> Join(artist_info.sources),
     last_updated |-> t]

\* The orders in which a set can be iterated.
Orders(S) ==
    {o \in [1..Cardinality(S) -> S] : \A i, j \in DOMAIN o : i # j => o[i] # o[j]}

\* GenreIterations running through the list itself, without set().
GenreIterations_list(artist_info) == {artist_info.genres}

\* The sequences the loop of line 184 may run through: set(genres), in any
\* iteration order.
GenreIterations(artist_info) == Orders(ToSet(artist_info.genres))

\* One artist_genres row (lines 185-188).
GenreRow(artist_id, genre, artist_info) ==
    [artist_id |-> artist_id, genre |-> genre,
     confidence |-> artist_info.confidence,
     source |-> Join(artist_info.sources)]

\* One artist_venues row (lines 239-240).
VenueRow(artist_id, venue, t) ==
    [artist_id |-> artist_id, venue |-> venue, last_played |-> t]

\* get_artist_from_db (lines 197-231): the hydrated record or None. A
\* database error inside the try block is printed and None is returned.
get_artist_from_db(artist_name, dbok) ==
    IF ~dbok THEN None
    ELSE IF \E a \in artists : a.name = artist_name
    THEN LET artist == CHOOSE a \in artists : a.name = artist_name
             gs == SelectSeq(artist_genres, LAMBDA r : r.artist_id = artist.id)
             vs == SelectSeq(artist_venues, LAMBDA r : r.artist_id = artist.id)
         IN Some([id |-> artist.id,
                  name |-> artist.name,
                  is_local |-> artist.is_local,
                  verification_source |-> artist.verification_source,
                  last_updated |-> artist.last_updated,
                  genres |-> [i \in 1..Len(gs) |-> gs[i].genre],
                  venues |-> [i \in 1..Len(vs) |->
                                 <<vs[i].venue, vs[i].last_played>>]])
    ELSE None

\* ------------------------------------------------------------------ actions

InitProgram ==
    /\ spotify \in BOOLEAN
    /\ artists = {}
    /\ artist_genres = <<>>
    /\ artist_venues = <<>>
    /\ now = 0
    /\ pc = [p \in Procs |-> "idle"]
    /\ arg = [p \in Procs |-> [name |-> <<>>, venue |-> None]]
    /\ info = [p \in Procs |-> None]
    /\ ret = [p \in Procs |-> None]
    /\ exc = [p \in Procs |-> "none"]
    /\ path = [p \in Procs |-> "none"]
    /\ adapterCalls = [p \in Procs |-> 0]
    /\ writeOutcome = [p \in Procs |-> "none"]
    /\ prior = [p \in Procs |-> {}]

Init == InitProgram /\ inputs = NoInputs /\ scrape = NoScrape

\* A caller invokes process_artist(artist_name, venue); the coroutine runs
\* lines 57-62 up to the venue update: the lookup, and the return of a hit
\* when no venue is to be recorded. A lookup that fails counts as a miss.
\* Call slots are used in order.
Call(p, artist_name, venue, dbok) ==
    /\ pc[p] = "idle"
    /\ p > 1 => pc[p - 1] # "idle"
    /\ arg' = [arg EXCEPT ![p] = [name |-> artist_name, venue |-> venue]]
    /\ prior' = [prior EXCEPT ![p] = {q \in Procs : Ended(q)}]
    /\ LET found == get_artist_from_db(artist_name, dbok) IN
       IF found # None
       THEN /\ info' = [info EXCEPT ![p] = found]
            /\ path' = [path EXCEPT ![p] = "hit"]
            /\ IF Truthy(venue)
               THEN /\ pc' = [pc EXCEPT ![p] = "visit"]
                    /\ ret' = ret
               ELSE /\ pc' = [pc EXCEPT ![p] = "done"]
                    /\ ret' = [ret EXCEPT ![p] = found]
       ELSE /\ info' = info
            /\ path' = [path EXCEPT ![p] = IF dbok THEN "miss" ELSE "error"]
            /\ pc' = [pc EXCEPT ![p] = "gather"]
            /\ ret' = ret
    /\ UNCHANGED <<spotify, artists, artist_genres, artist_venues, now, exc,
                   adapterCalls, writeOutcome, inputs,
                   scrape>>

\* update_venue_info also refreshing the artist's last_updated.
update_venue_info_touch(artist_id, venue, dbok, t) ==
    /\ IF dbok
       THEN /\ artist_venues' = Append(artist_venues, VenueRow(artist_id, venue, t))
            /\ artists' = {IF a.id = artist_id THEN [a EXCEPT !.last_updated = t]
                           ELSE a : a \in artists}
            /\ now' = t
       ELSE UNCHANGED <<artist_venues, artists, now>>
    /\ UNCHANGED artist_genres

\* update_venue_info (lines 233-246): one row appended and committed, or a
\* database error printed and rolled back. The artists table is not
\* consulted: the connection never enables foreign-key enforcement.
update_venue_info(artist_id, venue, dbok, t) ==
    /\ IF dbok
       THEN /\ artist_venues' = Append(artist_venues, VenueRow(artist_id, venue, t))
            /\ now' = t
       ELSE UNCHANGED <<artist_venues, now>>
    /\ UNCHANGED <<artists, artist_genres>>

\* What a read of datetime.now() may see: time has passed since the last
\* committed write.
ClockReads == {now + 1}

\* Visit returning the record re-read after the venue update.
Visit_reread(p, dbok, t) ==
    /\ pc[p] = "visit"
    /\ update_venue_info(info[p][1].id, arg[p].venue[1], dbok, t)
    /\ LET vs == SelectSeq(artist_venues', LAMBDA r : r.artist_id = info[p][1].id) IN
       ret' = [ret EXCEPT ![p] =
                  Some([info[p][1] EXCEPT !.venues =
                           [i \in 1..Len(vs) |-> <<vs[i].venue, vs[i].last_played>>]])]
    /\ pc' = [pc EXCEPT ![p] = "done"]
    /\ writeOutcome' = [writeOutcome EXCEPT ![p] = IF dbok THEN "ok" ELSE "dberror"]
    /\ UNCHANGED <<spotify, arg, info, exc, path, adapterCalls, prior, inputs,
                   scrape>>

\* process_artist lines 60-62 on a hit with a venue.
Visit(p, dbok, t) ==
    /\ pc[p] = "visit"
    /\ update_venue_info(info[p][1].id, arg[p].venue[1], dbok, t)
    /\ ret' = [ret EXCEPT ![p] = info[p]]
    /\ pc' = [pc EXCEPT ![p] = "done"]
    /\ writeOutcome' = [writeOutcome EXCEPT ![p] = IF dbok THEN "ok" ELSE "dberror"]
    /\ UNCHANGED <<spotify, arg, info, exc, path, adapterCalls, prior, inputs,
                   scrape>>

\* save_artist_to_db (lines 169-195): the artist row and one row per distinct
\* genre in one transaction; any exception is printed and rolled back.
save_artist_to_db(p, artist_info, dbok, t, order) ==
    IF NameTaken(artist_info.name)
    THEN /\ writeOutcome' = [writeOutcome EXCEPT ![p] = "duplicate"]
         /\ UNCHANGED <<artists, artist_genres, artist_venues, now>>
    ELSE IF ~dbok
    THEN /\ writeOutcome' = [writeOutcome EXCEPT ![p] = "dberror"]
         /\ UNCHANGED <<artists, artist_genres, artist_venues, now>>
    ELSE LET row == ArtistRow(artist_info, t) IN
         /\ artists' = artists \cup {row}
         /\ artist_genres' = artist_genres \o
                [i \in 1..Len(order) |-> GenreRow(row.id, order[i], artist_info)]
         /\ now' = t
         /\ writeOutcome' = [writeOutcome EXCEPT ![p] = "ok"]
         /\ UNCHANGED artist_venues

\* Gather persisting the candidate before the venue update of line 104.
Gather_save_first(p, search, dbok, t) ==
    /\ pc[p] = "gather"
    /\ LET merged == MergeAll(arg[p].name, spotify,
                              get_spotify_info(spotify, arg[p].name, search),
                              check_social_media(arg[p].name),
                              check_venue_history(arg[p].name))
       IN
       /\ adapterCalls' = [adapterCalls EXCEPT ![p] = AdaptersInvoked(spotify)]
       /\ info' = [info EXCEPT ![p] = Some(merged)]
       /\ IF Truthy(arg[p].venue)
          THEN /\ \E order \in GenreIterations(merged) :
                      save_artist_to_db(p, merged, dbok, t, order)
               /\ pc' = [pc EXCEPT ![p] = "raised"]
               /\ exc' = [exc EXCEPT ![p] = "KeyError"]
          ELSE /\ pc' = [pc EXCEPT ![p] = "save"]
               /\ exc' = exc
               /\ UNCHANGED <<artists, artist_genres, artist_venues, now,
                              writeOutcome>>
    /\ UNCHANGED <<spotify, arg, ret, path, prior, inputs,
                   scrape>>

\* gather_artist_info (lines 69-106), called at line 65. With a venue, line
\* 104 reads info['id']: the candidate has no such key (neither the initial
\* dict nor any fragment merged into it sets one), so KeyError leaves
\* gather_artist_info and process_artist before update_venue_info is called.
Gather(p, search, dbok, t) ==
    /\ pc[p] = "gather"
    /\ LET merged == MergeAll(arg[p].name, spotify,
                              get_spotify_info(spotify, arg[p].name, search),
                              check_social_media(arg[p].name),
                              check_venue_history(arg[p].name))
       IN
       /\ adapterCalls' = [adapterCalls EXCEPT ![p] = AdaptersInvoked(spotify)]
       /\ IF Truthy(arg[p].venue) /\ "id" \notin DOMAIN merged
          THEN /\ pc' = [pc EXCEPT ![p] = "raised"]
               /\ exc' = [exc EXCEPT ![p] = "KeyError"]
               /\ info' = info
               /\ UNCHANGED <<artists, artist_genres, artist_venues, now>>
          ELSE /\ pc' = [pc EXCEPT ![p] = "save"]
               /\ exc' = exc
               /\ info' = [info EXCEPT ![p] = Some(merged)]
               /\ IF Truthy(arg[p].venue)
                  THEN update_venue_info(merged.id, arg[p].venue[1], dbok, t)
                  ELSE UNCHANGED <<artists, artist_genres, artist_venues, now>>
    /\ UNCHANGED <<spotify, arg, ret, path, writeOutcome, prior, inputs,
                   scrape>>

\* process_artist lines 66-67: persist the candidate and return it.
Save(p, dbok, t) ==
    /\ pc[p] = "save"
    /\ \E order \in GenreIterations(info[p][1]) :
           save_artist_to_db(p, info[p][1], dbok, t, order)
    /\ ret' = [ret EXCEPT ![p] = info[p]]
    /\ pc' = [pc EXCEPT ![p] = "done"]
    /\ UNCHANGED <<spotify, arg, info, exc, path, adapterCalls, prior, inputs,
                   scrape>>

Next ==
    \E p \in Procs :
        \/ \E n \in Names, v \in Venues, dbok \in BOOLEAN : Call(p, n, v, dbok)
        \/ \E dbok \in BOOLEAN, t \in ClockReads : Visit(p, dbok, t)
        \/ \E s \in SearchResults, dbok \in BOOLEAN, t \in ClockReads :
               Gather(p, s, dbok, t)
        \/ \E dbok \in BOOLEAN, t \in ClockReads : Save(p, dbok, t)

Spec == Init /\ [][Next]_vars

\* --------------------------------------------- the merge as a pure function

\* gather_artist_info and save_artist_to_db applied to adapter results drawn
\* in advance: every combination of a catalog search outcome, a social
\* fragment and a venue-history fragment, present or None.

AllCatalogNames == Names \cup {<<"c">>}

AllSearchResults ==
    {[kind |-> "error", items |-> <<>>], [kind |-> "ok", items |-> <<>>]}
        \cup {[kind |-> "ok", items |-> <<a>>] :
                 a \in [name : AllCatalogNames, genres : GenreLists \cup {<<>>},
                        popularity : {50}, id : {"sp1"}]}

Tags == {"rock", "blues"}

\* Genre lists of a fragment, up to MaxGenres long.
FragmentGenres == UNION {[1..k -> Tags] : k \in 0..MaxGenres}

\* What an adapter that found something returns.
Fragments(tag) ==
    {None} \cup {Some(f) : f \in [genres : FragmentGenres, sources : {<<tag>>},
                                  is_local : BOOLEAN]}

InitMerge ==
    /\ InitProgram
    /\ inputs \in [name : Names, search : AllSearchResults,
                    social : Fragments("social"), venue : Fragments("venue")]
    /\ scrape = NoScrape

\* process_artist(name) on the empty store up to line 65: the lookup misses
\* and gather_artist_info merges the adapter results.
MergeStep ==
    /\ pc[1] = "idle"
    /\ arg' = [arg EXCEPT ![1] = [name |-> inputs.name, venue |-> None]]
    /\ path' = [path EXCEPT ![1] = "miss"]
    /\ adapterCalls' = [adapterCalls EXCEPT ![1] = AdaptersInvoked(spotify)]
    /\ info' = [info EXCEPT ![1] =
                   Some(MergeAll(inputs.name, spotify,
                                 get_spotify_info(spotify, inputs.name, inputs.search),
                                 inputs.social, inputs.venue))]
    /\ pc' = [pc EXCEPT ![1] = "save"]
    /\ UNCHANGED <<spotify, artists, artist_genres, artist_venues, now, ret,
                   exc, writeOutcome, prior, inputs,
                   scrape>>

NextMerge ==
    \/ MergeStep
    \/ \E dbok \in BOOLEAN, t \in ClockReads : Save(1, dbok, t)

SpecMerge == InitMerge /\ [][NextMerge]_vars

\* ------------------------------------------- the store methods on their own

\* save_artist_to_db and update_venue_info are public methods: a caller may
\* invoke them directly, with any candidate and any artist id.

\* Candidates a caller may hand to save_artist_to_db.
StoreCandidates ==
    {MergeAll(n, TRUE, get_spotify_info(TRUE, n, s), None, None) :
         n \in Names, s \in SearchResults}

\* Artist ids a caller may hand to update_venue_info.
StoreIds == 1..MaxWrites

\* save_artist_to_db(artist_info), lines 169-195.
StoreInsert(artist_info, dbok, t) ==
    /\ now < MaxWrites
    /\ \E order \in GenreIterations(artist_info) :
           save_artist_to_db(1, artist_info, dbok, t, order)
    /\ UNCHANGED <<spotify, pc, arg, info, ret, exc, path, adapterCalls, prior,
                   inputs, scrape>>

\* update_venue_info(artist_id, venue), lines 233-246.
StoreVisit(artist_id, venue, dbok, t) ==
    /\ now < MaxWrites
    /\ update_venue_info(artist_id, venue, dbok, t)
    /\ writeOutcome' = [writeOutcome EXCEPT ![1] = IF dbok THEN "ok" ELSE "dberror"]
    /\ UNCHANGED <<spotify, pc, arg, info, ret, exc, path, adapterCalls, prior,
                   inputs, scrape>>

NextStore ==
    \/ \E c \in StoreCandidates, dbok \in BOOLEAN, t \in ClockReads :
           StoreInsert(c, dbok, t)
    \/ \E id \in StoreIds, v \in {"Venue A", "Venue B"}, dbok \in BOOLEAN,
          t \in ClockReads :
           StoreVisit(id, v, dbok, t)

SpecStore == Init /\ [][NextStore]_vars

\* ---------------------------------------------------- the calendar scrapers

\* DocsTavernEventProcessor.scrape_events ("processor") and
\* DocsTavernScraper.scrape_events ("scraper"): one call, from the request to
\* the returned list. An event row is described by what its select_one calls
\* find: the title text, whether a datetime and a description are present,
\* and whether the title link is absent, carries an href, or lacks one.
Scrapers == {"processor", "scraper"}

\* Title texts, free of surplus whitespace: clean_text returns such a text
\* as it is.
Titles == {None, Some("Band A"), Some("Band B")}

Elements == [title : Titles, date : BOOLEAN, desc : BOOLEAN,
             link : {"none", "href", "nohref"}]

\* What soup.select may return: the rows of the page, in page order.
Pages == UNION {[1..k -> Elements] : k \in 0..MaxElements}

\* How the request ends: session.get raises, response.text() raises, or the
\* body arrives with some HTTP status.
FetchOutcomes == {"get_error", "text_error", "ok"}

Statuses == {200, 404}

\* The body of the processor's loop (event_processor.py lines 28-52):
\* title_elem.text at line 38 raises AttributeError when neither a
\* description nor a title was found.
parse_processor(e) ==
    IF ~e.desc /\ e.title = None
    THEN [kind |-> "raise"]
    ELSE [kind |-> "event",
          event |-> [venue |-> "Doc's Tavern",
                     band_name |-> IF e.title # None THEN e.title[1] ELSE "TBA",
                     date_time |-> IF e.date THEN "datetime" ELSE "TBA"]]

\* The body of the scraper's loop (docs_tavern_scraper.py lines 42-66): rows
\* without title or datetime are skipped; link_elem['href'] at line 55 raises
\* KeyError when the link carries no href.
parse_scraper(e) ==
    IF e.title = None \/ ~e.date
    THEN [kind |-> "skip"]
    ELSE IF e.link = "nohref"
    THEN [kind |-> "raise"]
    ELSE [kind |-> "event",
          event |-> [venue |-> "Doc's Tavern",
                     title |-> e.title[1],
                     date |-> "datetime",
                     url |-> IF e.link = "href" THEN "href" ELSE "base_url",
                     description |-> IF e.desc THEN "description" ELSE ""]]

parse_element(which, e) ==
    IF which = "processor" THEN parse_processor(e) ELSE parse_scraper(e)

\* scrape_events up to the loop: the request, the status check (scraper
\* only), the body and its rows. An exception is caught by the outer except
\* clause, which leaves through `return events` with the empty list.
ScrapeFetch(which, outcome, status) ==
    /\ scrape.pc = "idle"
    /\ IF outcome # "ok"
       THEN scrape' = [scrape EXCEPT !.which = which, !.pc = "returned",
                                     !.fetched = outcome]
       ELSE IF which = "scraper" /\ status # 200
       THEN scrape' = [scrape EXCEPT !.which = which, !.pc = "returned",
                                     !.fetched = "status"]
       ELSE \E page \in Pages :
                scrape' = [scrape EXCEPT !.which = which, !.pc = "loop",
                                         !.fetched = "ok", !.page = page, !.i = 1]
    /\ UNCHANGED <<spotify, artists, artist_genres, artist_venues, now, pc, arg,
                   info, ret, exc, path, adapterCalls, writeOutcome, prior,
                   inputs>>

\* ScrapeElement without the inner try: an exception in a row leaves the loop
\* and is caught by the outer except clause.
ScrapeElement_abort ==
    /\ scrape.pc = "loop"
    /\ scrape.i <= Len(scrape.page)
    /\ LET r == parse_element(scrape.which, scrape.page[scrape.i]) IN
       scrape' = IF r.kind = "raise"
                 THEN [scrape EXCEPT !.pc = "returned"]
                 ELSE [scrape EXCEPT
                          !.i = @ + 1,
                          !.events = IF r.kind = "event"
                                     THEN Append(@, r.event) ELSE @]
    /\ UNCHANGED <<spotify, artists, artist_genres, artist_venues, now, pc, arg,
                   info, ret, exc, path, adapterCalls, writeOutcome, prior,
                   inputs>>

\* One iteration of the loop: the row's event is appended, or the row is
\* skipped, or its exception is caught by the inner except clause and the
\* loop continues.
ScrapeElement ==
    /\ scrape.pc = "loop"
    /\ scrape.i <= Len(scrape.page)
    /\ LET r == parse_element(scrape.which, scrape.page[scrape.i]) IN
       scrape' = [scrape EXCEPT
                     !.i = @ + 1,
                     !.events = IF r.kind = "event" THEN Append(@, r.event) ELSE @]
    /\ UNCHANGED <<spotify, artists, artist_genres, artist_venues, now, pc, arg,
                   info, ret, exc, path, adapterCalls, writeOutcome, prior,
                   inputs>>

\* After the loop: the response is released on leaving its `async with`,
\* inside the outer try; a failure there is caught and the events collected
\* are returned.
ScrapeReturn(released) ==
    /\ scrape.pc = "loop"
    /\ scrape.i > Len(scrape.page)
    /\ scrape' = [scrape EXCEPT !.pc = "returned",
                                !.fetched = IF released THEN @ ELSE "release_error"]
    /\ UNCHANGED <<spotify, artists, artist_genres, artist_venues, now, pc, arg,
                   info, ret, exc, path, adapterCalls, writeOutcome, prior,
                   inputs>>

InitScrape == InitProgram /\ ~spotify /\ inputs = NoInputs /\ scrape = NoScrape

NextScrape ==
    \/ \E w \in Scrapers, o \in FetchOutcomes, st \in Statuses :
           ScrapeFetch(w, o, st)
    \/ ScrapeElement
    \/ \E released \in BOOLEAN : ScrapeReturn(released)

SpecScrape == InitScrape /\ [][NextScrape]_vars

\* ------------------------------------------------------------------ claims

HasId(r) == "id" \in DOMAIN r

Returned(p) == pc[p] = "done"

\* No store statement of the call failed for a reason outside the program.
NoOutsideFailure(p) == path[p] # "error" /\ writeOutcome[p] # "dberror"

\* Neither call had ended when the other began.
Concurrent(p, q) ==
    pc[p] # "idle" /\ pc[q] # "idle" /\ p \notin prior[q] /\ q \notin prior[p]

RowsNamed(name) == {a \in artists : a.name = name}

VisitsOf(artist_id) == SelectSeq(artist_venues, LAMBDA r : r.artist_id = artist_id)

GenreRowsOf(artist_id) == SelectSeq(artist_genres, LAMBDA r : r.artist_id = artist_id)

\* C1: two concurrent calls for the same name (no venue) that both found no
\* record: once both have ended, both returned, the store holds exactly one artist
\* row for the name, and both returned records carry that row's id.
C1_ConcurrentInsert ==
    \A p, q \in Procs :
        ( /\ p # q
          /\ Ended(p) /\ Ended(q)
          /\ Concurrent(p, q)
          /\ arg[p].name = arg[q].name
          /\ arg[p].venue = None /\ arg[q].venue = None
          /\ path[p] = "miss" /\ path[q] = "miss"
          /\ NoOutsideFailure(p) /\ NoOutsideFailure(q) )
        => /\ Returned(p) /\ Returned(q)
           /\ Cardinality(RowsNamed(arg[p].name)) = 1
           /\ HasId(ret[p][1]) /\ HasId(ret[q][1])
           /\ ret[p][1].id = ret[q][1].id
           /\ \E a \in RowsNamed(arg[p].name) : a.id = ret[p][1].id

\* C2: a call whose insert failed on the duplicate name (a race: its lookup
\* had missed, and no store statement failed for an outside reason) returns the stored
\* record (with its id), having recorded the venue visit when a venue was
\* supplied; it neither raises nor returns the unpersisted candidate.
C2_DuplicateRetried ==
    \A p \in Procs :
        ( /\ Ended(p) /\ path[p] = "miss" /\ writeOutcome[p] = "duplicate"
          /\ \A r \in Procs : NoOutsideFailure(r) )
        => /\ Returned(p)
           /\ HasId(ret[p][1])
           /\ \E a \in RowsNamed(arg[p].name) :
                 /\ a.id = ret[p][1].id
                 /\ Truthy(arg[p].venue) =>
                        \E i \in DOMAIN artist_venues :
                            /\ artist_venues[i].artist_id = a.id
                            /\ artist_venues[i].venue = arg[p].venue[1]

\* C3: of two successive calls for the same name with no venue, both return
\* records with the same id and the same set of genres, and the second is a
\* pure cache hit: no adapter invoked, nothing written.
C3_Idempotent ==
    \A p, q \in Procs :
        ( /\ p \in prior[q]
          /\ Ended(q)
          /\ arg[p].name = arg[q].name
          /\ arg[p].venue = None /\ arg[q].venue = None
          /\ NoOutsideFailure(p) /\ NoOutsideFailure(q) )
        => /\ Returned(p) /\ Returned(q)
           /\ HasId(ret[p][1]) /\ HasId(ret[q][1])
           /\ ret[p][1].id = ret[q][1].id
           /\ ToSet(ret[p][1].genres) = ToSet(ret[q][1].genres)
           /\ path[q] = "hit"
           /\ adapterCalls[q] = 0
           /\ writeOutcome[q] = "none"

\* C4: from a store without the name, a call with one venue followed by a
\* call with another venue (and no other call for the name) leaves exactly
\* two venue-visit rows for the name's artist id, one per venue.
C4_VenueAccumulation ==
    \A p, q \in Procs :
        ( /\ p \in prior[q]
          /\ Ended(q)
          /\ arg[p].name = arg[q].name
          /\ path[p] = "miss"
          /\ Truthy(arg[p].venue) /\ Truthy(arg[q].venue)
          /\ arg[p].venue # arg[q].venue
          /\ NoOutsideFailure(p) /\ NoOutsideFailure(q)
          /\ \A r \in Procs \ {p, q} :
                 pc[r] = "idle" \/ arg[r].name # arg[p].name )
        => \E a \in RowsNamed(arg[p].name) :
              /\ Len(VisitsOf(a.id)) = 2
              /\ {VisitsOf(a.id)[i].venue : i \in 1..2}
                     = {arg[p].venue[1], arg[q].venue[1]}

\* C5: a cache miss with a venue ends by returning the persisted record with
\* the id the insert assigned; the artist row exists and a venue-visit row
\* for that id and venue has been recorded.
C5_MissWithVenue ==
    \A p \in Procs :
        ( /\ Ended(p)
          /\ path[p] = "miss"
          /\ Truthy(arg[p].venue)
          /\ writeOutcome[p] \notin {"dberror", "duplicate"} )
        => /\ Returned(p)
           /\ HasId(ret[p][1])
           /\ \E a \in RowsNamed(arg[p].name) :
                 /\ a.id = ret[p][1].id
                 /\ \E i \in DOMAIN artist_venues :
                        /\ artist_venues[i].artist_id = a.id
                        /\ artist_venues[i].venue = arg[p].venue[1]

\* C6: a call either returns a record whose id is that of an artist row in
\* the store or fails with PersistenceError; stated here for its named case:
\* a call whose insert failed for a reason other than a duplicate name fails
\* with PersistenceError and returns nothing.
C6_InsertFailureSurfaced ==
    \A p \in Procs :
        (Ended(p) /\ path[p] = "miss" /\ writeOutcome[p] = "dberror")
        => pc[p] = "raised" /\ exc[p] = "PersistenceError"

\* Equality of names up to the case of their letters.
SameIgnoringCase(a, b) ==
    /\ Len(a) = Len(b)
    /\ \A i \in 1..Len(a) : a[i] = b[i] \/ {a[i], b[i]} = {"A", "a"}

\* The catalog artist the search returned to a configured client, if any.
CatalogHit == spotify /\ inputs.search.kind = "ok" /\ inputs.search.items # <<>>

\* C7: the candidate's confidence is 0.8 when the catalog returned an artist
\* whose name equals the queried one case-insensitively, 0.5 when it returned
\* another artist, 0.0 without a catalog result, whatever the social and
\* venue-history fragments are.
C7_ConfidenceFromCatalog ==
    pc[1] \in {"save", "done"} =>
        info[1][1].confidence =
            IF CatalogHit
            THEN IF SameIgnoringCase(inputs.search.items[1].name, inputs.name)
                 THEN 8 ELSE 5
            ELSE 0

\* C7's case: a catalog match that differs in case, with both later fragments
\* present, gave confidence 0.8.
C7_Witness ==
    /\ pc[1] = "save"
    /\ CatalogHit
    /\ inputs.search.items[1].name # inputs.name
    /\ inputs.social # None /\ inputs.venue # None
    /\ info[1][1].confidence = 8

\* A present fragment that reports locality.
ReportsLocal(frag) == frag # None /\ frag[1].is_local

\* C8: the candidate's is_local is true iff a present social or venue-history
\* fragment reported is_local = true; a later fragment reporting false does
\* not reset it.
C8_LocalityIsOr ==
    pc[1] \in {"save", "done"} =>
        (info[1][1].is_local <=>
            (ReportsLocal(inputs.social) \/ ReportsLocal(inputs.venue)))

\* C8's case: the social fragment reported local, the later venue-history
\* fragment is present and reported not local, and the candidate is local.
C8_Witness ==
    /\ pc[1] = "save"
    /\ ReportsLocal(inputs.social)
    /\ inputs.venue # None /\ ~inputs.venue[1].is_local
    /\ info[1][1].is_local

\* C9: no artist id has two genre rows with the same genre, and the genres
\* persisted for a candidate are the distinct tags of its merged list.
C9_GenresDeduplicated ==
    /\ \A a \in artists :
          \A i, j \in DOMAIN GenreRowsOf(a.id) :
              i # j => GenreRowsOf(a.id)[i].genre # GenreRowsOf(a.id)[j].genre
    /\ \A p \in Procs :
          (Returned(p) /\ path[p] # "hit" /\ writeOutcome[p] = "ok") =>
              \E a \in RowsNamed(arg[p].name) :
                  {GenreRowsOf(a.id)[i].genre : i \in DOMAIN GenreRowsOf(a.id)}
                      = ToSet(info[p][1].genres)

\* C9's case: a candidate whose merged list repeats a tag that two adapters
\* reported has been persisted.
C9_Witness ==
    /\ Returned(1) /\ writeOutcome[1] = "ok"
    /\ CatalogHit /\ inputs.social # None
    /\ ToSet(inputs.search.items[1].genres) \cap ToSet(inputs.social[1].genres) # {}
    /\ Len(info[1][1].genres) > Cardinality(ToSet(info[1][1].genres))
    /\ Len(artist_genres) = Cardinality(ToSet(info[1][1].genres))

\* A step of call p on the cache-hit path: the lookup that hits, or the
\* venue update that follows it.
HitStep(p) ==
    \/ pc[p] = "idle" /\ path'[p] = "hit"
    \/ pc[p] = "visit" /\ pc'[p] = "done"

\* C10: a step on the cache-hit path invokes no adapter and leaves the artist
\* rows and the genre rows unchanged; it writes nothing, or, when a venue was
\* supplied, appends one venue-visit row for the hit's id and that venue.
C10_HitFrame ==
    [][\A p \in Procs :
          HitStep(p) =>
              /\ artists' = artists
              /\ artist_genres' = artist_genres
              /\ adapterCalls'[p] = 0
              /\ \/ artist_venues' = artist_venues
                 \/ /\ pc[p] = "visit"
                    /\ Truthy(arg[p].venue)
                    /\ Len(artist_venues') = Len(artist_venues) + 1
                    /\ SubSeq(artist_venues', 1, Len(artist_venues)) = artist_venues
                    /\ artist_venues'[Len(artist_venues')].artist_id = info[p][1].id
                    /\ artist_venues'[Len(artist_venues')].venue = arg[p].venue[1]
              /\ ~Truthy(arg'[p].venue) => artist_venues' = artist_venues
      ]_vars

\* C10's case: a call that hit the store, with a venue, has appended its
\* visit and returned, after the artist's row was written at an earlier time.
C10_Witness ==
    \E p \in Procs :
        /\ path[p] = "hit" /\ Returned(p)
        /\ Truthy(arg[p].venue)
        /\ writeOutcome[p] = "ok"
        /\ \E i \in DOMAIN artist_venues :
               /\ artist_venues[i].artist_id = ret[p][1].id
               /\ artist_venues[i].last_played > ret[p][1].last_updated

\* C11: a cache miss, with or without a venue, completes and persists a
\* record whatever the adapters returned; with no adapter result the record
\* has no genres, confidence 0.0, is_local false and no sources.
C11_AdaptersDegrade ==
    \A p \in Procs :
        ( /\ Ended(p)
          /\ path[p] = "miss"
          /\ \A r \in Procs : NoOutsideFailure(r) /\ writeOutcome[r] # "duplicate" )
        => /\ Returned(p)
           /\ exc[p] = "none"
           /\ \E a \in RowsNamed(arg[p].name) :
                 ret[p][1].sources = <<>> =>
                     /\ ret[p][1].genres = <<>>
                     /\ ret[p][1].confidence = 0
                     /\ ~ret[p][1].is_local
                     /\ GenreRowsOf(a.id) = <<>>
                     /\ ~a.is_local
                     /\ a.verification_source = ""

\* C12: an insert that fails leaves artists and artist_genres as they were
\* and reports the failure: the call that made it ends with PersistenceError.
C12_InsertAtomicAndReported ==
    [][\A p \in Procs :
          (pc[p] = "save" /\ path[p] = "miss" /\ writeOutcome'[p] = "dberror") =>
              /\ artists' = artists
              /\ artist_genres' = artist_genres
              /\ pc'[p] = "raised"
              /\ exc'[p] = "PersistenceError"
      ]_vars

\* C13: every venue-visit row and every genre row references the id of an
\* existing artist row (update_venue_info with an unknown id appends nothing).
C13_RowsReferenceArtists ==
    /\ \A i \in DOMAIN artist_venues :
          \E a \in artists : a.id = artist_venues[i].artist_id
    /\ \A i \in DOMAIN artist_genres :
          \E a \in artists : a.id = artist_genres[i].artist_id

\* C14: no two artist rows ever share a name, and a row, once written, keeps
\* its id, is_local and sources in every later state.
C14_UniqueAndImmutable ==
    [][/\ \A a, b \in artists' : a.name = b.name => a = b
       /\ \A a \in artists :
             \E b \in artists' :
                 /\ b.name = a.name
                 /\ b.id = a.id
                 /\ b.is_local = a.is_local
                 /\ b.verification_source = a.verification_source
      ]_vars

\* C14's case: two calls missed on the same name; the insert of one wrote the
\* row and the insert of the other was attempted while that row existed.
C14_Witness ==
    \E p, q \in Procs :
        /\ Ended(p) /\ path[p] = "miss" /\ writeOutcome[p] = "duplicate"
        /\ Cardinality(RowsNamed(arg[p].name)) = 1
        /\ q # p /\ Ended(q) /\ path[q] = "miss" /\ writeOutcome[q] = "ok"
        /\ arg[q].name = arg[p].name

\* C15: venue visits are append-only and not deduplicated: a hit with a venue
\* that returns adds exactly one visit row for the artist, and no step
\* removes or modifies a visit row.
C15_VisitAppended ==
    [][/\ Len(artist_venues') >= Len(artist_venues)
       /\ SubSeq(artist_venues', 1, Len(artist_venues)) = artist_venues
       /\ \A p \in Procs :
             (pc[p] = "visit" /\ pc'[p] = "done") =>
                 LET id == info[p][1].id IN
                 Len(SelectSeq(artist_venues', LAMBDA r : r.artist_id = id))
                     = Len(SelectSeq(artist_venues, LAMBDA r : r.artist_id = id)) + 1
      ]_vars

\* The sources and the genres a fragment contributes; nothing when absent.
SourcesOf(frag) == IF frag = None THEN <<>> ELSE frag[1].sources

GenresOf(frag) == IF frag = None THEN <<>> ELSE frag[1].genres

\* C16: the merged candidate is a function of the three adapter results,
\* applied in the order catalog, social, venue history: its sources and its
\* genres list the catalog's contribution, then the social fragment's, then
\* the venue-history fragment's.
C16_MergeOrder ==
    pc[1] \in {"save", "done"} =>
        /\ info[1][1].sources =
               (IF CatalogHit THEN <<"spotify">> ELSE <<>>)
                   \o SourcesOf(inputs.social) \o SourcesOf(inputs.venue)
        /\ info[1][1].genres =
               (IF CatalogHit THEN inputs.search.items[1].genres ELSE <<>>)
                   \o GenresOf(inputs.social) \o GenresOf(inputs.venue)

\* C16's case: all three adapters returned a result, the social and the
\* venue-history fragments with different genres, and the merge has run.
C16_Witness ==
    /\ pc[1] = "save"
    /\ CatalogHit
    /\ inputs.social # None /\ inputs.venue # None
    /\ inputs.social[1].genres # <<>>
    /\ inputs.venue[1].genres # <<>>
    /\ inputs.social[1].genres # inputs.venue[1].genres
    /\ info[1][1].sources = <<"spotify", "social", "venue">>

\* C17: a call that ends by raising has written no row: the step that raises
\* leaves all three tables as they were, and the call attempted no write
\* before it.
C17_RaiseWritesNothing ==
    [][\A p \in Procs :
          (pc[p] # "raised" /\ pc'[p] = "raised") =>
              /\ artists' = artists
              /\ artist_genres' = artist_genres
              /\ artist_venues' = artist_venues
              /\ writeOutcome[p] = "none"
              /\ writeOutcome'[p] = "none"
      ]_vars

\* C17's case: a call has raised while the store held rows written by
\* another call.
C17_Witness ==
    \E p \in Procs :
        /\ pc[p] = "raised" /\ exc[p] = "KeyError"
        /\ artists # {}
        /\ artist_genres # <<>>

\* The visits of an artist as get_artist_from_db lists them.
VenuePairs(rows, artist_id) ==
    LET vs == SelectSeq(rows, LAMBDA r : r.artist_id = artist_id) IN
    [i \in 1..Len(vs) |-> <<vs[i].venue, vs[i].last_played>>]

ExpectedEvents(which, rows) ==
    LET parsed == [k \in DOMAIN rows |-> parse_element(which, rows[k])]
        kept == SelectSeq(parsed, LAMBDA r : r.kind = "event")
    IN [k \in DOMAIN kept |-> kept[k].event]

\* C19: scrape_events of either scraper ends by returning, never by raising;
\* the events collected are those of the rows processed so far that parse, in
\* page order, whatever happened to the other rows; they are what is
\* returned also when releasing the response fails, and the list is empty
\* when the page could not be fetched.
C19_ScrapeNeverRaises ==
    /\ scrape.pc \in {"idle", "loop", "returned"}
    /\ scrape.pc = "loop" =>
           scrape.events = ExpectedEvents(scrape.which,
                                          SubSeq(scrape.page, 1, scrape.i - 1))
    /\ scrape.pc = "returned" =>
           /\ scrape.events = ExpectedEvents(scrape.which, scrape.page)
           /\ scrape.fetched \in {"get_error", "text_error", "status"} =>
                  scrape.events = <<>>

\* C19's case: a row that raised was followed by a row that parsed, and the
\* call returned the later row's event.
C19_Witness ==
    /\ scrape.pc = "returned"
    /\ \E k \in DOMAIN scrape.page :
          /\ parse_element(scrape.which, scrape.page[k]).kind = "raise"
          /\ k < Len(scrape.page)
          /\ parse_element(scrape.which, scrape.page[k + 1]).kind = "event"
    /\ scrape.events # <<>>

====
